---------------------------- MODULE Spec2Model ----------------------------
(***************************************************************************)
(* A model of hydrodata/utils.py: the job normalisation and runner         *)
(* (get_data), the threaded batch dispatcher (batch), the retrying HTTP    *)
(* session (retry_requests) and the Daymet date splitter (daymet_dates).   *)
(***************************************************************************)
EXTENDS Integers, Sequences, FiniteSets, TLC

(***************************************************************************)
(* Bounds of the model.                                                    *)
(***************************************************************************)
MaxJobs == 3
MaxWorkers == 2
MaxRetries == 3
FirstYear == 2015
NumYears == 3

VARIABLES
    heap,       \* object id -> the dict a caller passed (mutated in place by get_data)
    heap0,      \* history: the dicts as the caller built them
    stations,   \* batch's argument: a sequence of object ids (aliases allowed)
    pc,         \* per job: position of the job (future state and line of get_data)
    calls,      \* per job: the collaborator calls get_data has made, in order
    nlcdArg,    \* per job: the argument(s) handed to station.get_nlcd
    result,     \* per job: the returned data_dir, or the exception raised (<<>> before)
    workers,    \* max_workers of the ThreadPoolExecutor
    bpc,        \* position of the thread that called batch (or "direct")
    submitted,  \* number of futures executor.map has created
    data_dirs,  \* the results the result iterator has yielded so far
    berr,       \* the exception propagating out of batch (<<>> when none)
    outOfOrder, \* history: some job completed before a job submitted earlier
    lateDone,   \* history: some job completed while batch was unwinding an exception
    msg,        \* "All the jobs finished successfully." has been printed
    \* retry_requests: one request through the session it built
    retries, backoff_factor, status_to_retry,   \* the arguments of retry_requests
    method,     \* the HTTP method of the request
    total,      \* Retry.total, Retry.connect, Retry.read of the request's Retry object
    connect,
    read,
    errs,       \* Retry.history: the failures retried or given up on, in order
    attempts,   \* number of times the request was sent
    sleeps,     \* the waits between attempts, in order (0: none)
    rpc,        \* "send", "returned" or "raised" ("idle": no request)
    rout,       \* the status returned or the exception raised
    \* daymet_dates
    dstart, dend,   \* the arguments, as <<year, month, day>>
    dpc,        \* "call" or "done" ("idle": no call)
    dout        \* the list returned

jobVars == <<heap, heap0, stations, pc, calls, nlcdArg, result, workers, bpc,
             submitted, data_dirs, berr, outOfOrder, lateDone, msg>>

retryVars == <<retries, backoff_factor, status_to_retry, method, total, connect,
               read, errs, attempts, sleeps, rpc, rout>>

dateVars == <<dstart, dend, dpc, dout>>

vars == <<jobVars, retryVars, dateVars>>

(***************************************************************************)
(* Values.  None is Python's None; flags are "True"/"False".               *)
(***************************************************************************)
None == "None"

Truthy(v) == v = "True"

Years2016 == [impervious |-> 2016, cover |-> 2016, canopy |-> 2016]

Years2011 == [impervious |-> 2011, cover |-> 2011, canopy |-> 2011]

\* get_data: the default dict (lines 130-142), key names as the code spells them.
default ==
    [k \in {"start", "end", "station_id", "coords", "data_dir", "rain_snow",
            "phenology", "width", "climate", "nlcd", "yreas"} |->
        CASE k = "start" -> None
          [] k = "end" -> None
          [] k = "station_id" -> None
          [] k = "coords" -> None
          [] k = "data_dir" -> "./data"
          [] k = "rain_snow" -> "False"
          [] k = "phenology" -> "False"
          [] k = "width" -> "2000"
          [] k = "climate" -> "False"
          [] k = "nlcd" -> "False"
          [] k = "yreas" -> Years2016]

\* A variant of the exclusivity check with the None tests inverted.
ExclusivityRaisesInverted(s) ==
    /\ "station_id" \in DOMAIN s
    /\ "coords" \in DOMAIN s
    /\ s["station_id"] = None /\ s["coords"] = None

\* A variant of the exclusivity check that trips as soon as one of the two is set.
ExclusivityRaisesEither(s) ==
    /\ "station_id" \in DOMAIN s
    /\ "coords" \in DOMAIN s
    /\ (s["station_id"] # None \/ s["coords"] # None)

\* get_data lines 144-148: params = list(stations.keys()); the nested ifs.
ExclusivityRaises(s) ==
    /\ "station_id" \in DOMAIN s
    /\ "coords" \in DOMAIN s
    /\ s["station_id"] # None /\ s["coords"] # None

\* A raised exception, as a value.
Err(m) == <<"raise", m>>

ExclusivityError == Err("KeyError: Either coords or station_id should be provided.")

\* A variant of the merge that writes every default, present key or not.
MergeDefaultsOverwrite(s) ==
    [k \in DOMAIN s \cup DOMAIN default |->
        IF k \in DOMAIN default THEN default[k] ELSE s[k]]

\* get_data lines 150-152: for k in default: if k not in params: stations[k] = default[k].
MergeDefaults(s) ==
    [k \in DOMAIN s \cup DOMAIN default |->
        IF k \in DOMAIN s THEN s[k] ELSE default[k]]

\* The directory the Dataloader built at lines 154-163 reports as station.data_dir.
DataDir(s) == <<"dir", s["data_dir"], s["station_id"], s["coords"]>>

Jobs == 1..Len(stations)

Arg(i) == heap[stations[i]]

Done == {"succeeded", "failed", "cancelled"}

Running == {"check", "merge", "dataloader", "climate", "nlcd"}

(***************************************************************************)
(* get_data, one action per step of job i.                                 *)
(***************************************************************************)
Finish(i, state, val) ==
    /\ pc' = [pc EXCEPT ![i] = state]
    /\ result' = [result EXCEPT ![i] = val]
    /\ outOfOrder' = (outOfOrder \/ \E j \in 1..(i - 1) : pc[j] \notin Done)
    /\ lateDone' = (lateDone \/ (bpc = "exit" /\ berr # <<>>))

Step(i, next) ==
    /\ pc' = [pc EXCEPT ![i] = next]
    /\ UNCHANGED <<result, outOfOrder, lateDone>>

\* lines 144-148
GdCheck(i) ==
    /\ pc[i] = "check"
    /\ IF ExclusivityRaises(Arg(i))
          THEN Finish(i, "failed", ExclusivityError)
          ELSE Step(i, "merge")
    /\ UNCHANGED <<heap, heap0, stations, calls, nlcdArg, workers, bpc,
                   submitted, data_dirs, berr, msg>>
    /\ UNCHANGED <<retryVars, dateVars>>

\* lines 150-152
GdMerge(i) ==
    /\ pc[i] = "merge"
    /\ heap' = [heap EXCEPT ![stations[i]] = MergeDefaults(@)]
    /\ Step(i, "dataloader")
    /\ UNCHANGED <<heap0, stations, calls, nlcdArg, workers, bpc,
                   submitted, data_dirs, berr, msg>>
    /\ UNCHANGED <<retryVars, dateVars>>

\* lines 154-163: the constructor reads eight keys and may raise.
GdDataloader(i) ==
    /\ pc[i] = "dataloader"
    /\ IF {"start", "end", "station_id", "coords", "data_dir", "rain_snow",
           "phenology", "width"} \subseteq DOMAIN Arg(i)
          THEN /\ calls' = [calls EXCEPT ![i] = Append(@, "Dataloader")]
               /\ \/ Step(i, "climate")
                  \/ Finish(i, "failed", Err("Dataloader error"))
          ELSE /\ Finish(i, "failed", Err("KeyError"))
               /\ UNCHANGED calls
    /\ UNCHANGED <<heap, heap0, stations, nlcdArg, workers, bpc,
                   submitted, data_dirs, berr, msg>>
    /\ UNCHANGED <<retryVars, dateVars>>

\* lines 165-166
GdClimate(i) ==
    /\ pc[i] = "climate"
    /\ IF "climate" \notin DOMAIN Arg(i)
          THEN Finish(i, "failed", Err("KeyError: 'climate'")) /\ UNCHANGED calls
          ELSE IF Truthy(Arg(i)["climate"])
                  THEN /\ calls' = [calls EXCEPT ![i] = Append(@, "get_climate")]
                       /\ \/ Step(i, "nlcd")
                          \/ Finish(i, "failed", Err("get_climate error"))
                  ELSE Step(i, "nlcd") /\ UNCHANGED calls
    /\ UNCHANGED <<heap, heap0, stations, nlcdArg, workers, bpc,
                   submitted, data_dirs, berr, msg>>
    /\ UNCHANGED <<retryVars, dateVars>>

\* lines 168-171
GdNlcd(i) ==
    /\ pc[i] = "nlcd"
    /\ IF "nlcd" \notin DOMAIN Arg(i)
          THEN /\ Finish(i, "failed", Err("KeyError: 'nlcd'"))
               /\ UNCHANGED <<calls, nlcdArg>>
          ELSE IF Truthy(Arg(i)["nlcd"])
                  THEN IF "years" \in DOMAIN Arg(i)
                          THEN /\ calls' = [calls EXCEPT ![i] = Append(@, "get_nlcd")]
                               /\ nlcdArg' = [nlcdArg EXCEPT ![i] = Append(@, Arg(i)["years"])]
                               /\ \/ Finish(i, "succeeded", DataDir(Arg(i)))
                                  \/ Finish(i, "failed", Err("get_nlcd error"))
                          ELSE /\ Finish(i, "failed", Err("KeyError: 'years'"))
                               /\ UNCHANGED <<calls, nlcdArg>>
                  ELSE /\ Finish(i, "succeeded", DataDir(Arg(i)))
                       /\ UNCHANGED <<calls, nlcdArg>>
    /\ UNCHANGED <<heap, heap0, stations, workers, bpc,
                   submitted, data_dirs, berr, msg>>
    /\ UNCHANGED <<retryVars, dateVars>>

GetData(i) ==
    \/ GdCheck(i)
    \/ GdMerge(i)
    \/ GdDataloader(i)
    \/ GdClimate(i)
    \/ GdNlcd(i)

(***************************************************************************)
(* batch: the calling thread and the pool of the ThreadPoolExecutor.       *)
(***************************************************************************)
RunningJobs == {i \in Jobs : pc[i] \in Running}

\* A result iterator that pops the futures without having reversed them.
NextFutureUnreversed == Len(stations) - Len(data_dirs)

\* line 199, executor.map's result iterator: fs.reverse(); fs.pop().result()
NextFuture == Len(data_dirs) + 1

\* An exit of the with-block that does not wait (shutdown(wait=False)).
ShutdownMayReturnNoWait == TRUE

\* line 198, leaving the with-block: shutdown(wait=True) joins the workers,
\* which first drain the queue of the futures that were not cancelled.
ShutdownMayReturn == \A i \in Jobs : pc[i] \notin Running \cup {"pending"}

\* A result iterator that swallows the exception of a failed future and
\* yields an empty result in its place.
CollectFailedSwallow(c) ==
    /\ bpc' = "collect"
    /\ data_dirs' = Append(data_dirs, <<>>)
    /\ berr' = berr
    /\ pc' = pc

\* line 199: result() re-raises the job's exception; the iterator's finally
\* clause cancels the futures it has not yielded, and the with-block exits.
CollectFailed(c) ==
    /\ bpc' = "exit"
    /\ data_dirs' = data_dirs
    /\ berr' = result[c]
    /\ pc' = [j \in Jobs |->
                IF pc[j] = "pending" /\ j # c THEN "cancelled" ELSE pc[j]]

\* line 199, executor.map: fs = [self.submit(fn, *args) for args in zip(*iterables)]
Submit ==
    /\ bpc = "submit"
    /\ submitted < Len(stations)
    /\ pc' = [pc EXCEPT ![submitted + 1] = "pending"]
    /\ submitted' = submitted + 1
    /\ bpc' = IF submitted + 1 = Len(stations) THEN "collect" ELSE "submit"
    /\ UNCHANGED <<heap, heap0, stations, calls, nlcdArg, result, workers,
                   data_dirs, berr, outOfOrder, lateDone, msg>>
    /\ UNCHANGED <<retryVars, dateVars>>

\* A worker thread takes the oldest queued work item and calls get_data.
WorkerStart(i) ==
    /\ pc[i] = "pending"
    /\ \A j \in 1..(i - 1) : pc[j] # "pending"
    /\ Cardinality(RunningJobs) < workers
    /\ pc' = [pc EXCEPT ![i] = "check"]
    /\ UNCHANGED <<heap, heap0, stations, calls, nlcdArg, result, workers, bpc,
                   submitted, data_dirs, berr, outOfOrder, lateDone, msg>>
    /\ UNCHANGED <<retryVars, dateVars>>

\* line 199: list(...) draws the next result, in submission order.
Collect ==
    /\ bpc = "collect"
    /\ IF Len(data_dirs) = Len(stations)
          THEN /\ bpc' = "exit"
               /\ UNCHANGED <<pc, data_dirs, berr>>
          ELSE /\ NextFuture \in Jobs
               /\ pc[NextFuture] \in Done
               /\ IF pc[NextFuture] = "succeeded"
                     THEN /\ data_dirs' = Append(data_dirs, result[NextFuture])
                          /\ UNCHANGED <<pc, bpc, berr>>
                     ELSE CollectFailed(NextFuture)
    /\ UNCHANGED <<heap, heap0, stations, calls, nlcdArg, result, workers,
                   submitted, outOfOrder, lateDone, msg>>
    /\ UNCHANGED <<retryVars, dateVars>>

\* lines 198-202: the with-block exits; then either the exception leaves
\* batch, or the message is printed and data_dirs returned.
BatchExit ==
    /\ bpc = "exit"
    /\ ShutdownMayReturn
    /\ IF berr # <<>>
          THEN bpc' = "raised" /\ msg' = msg
          ELSE bpc' = "returned" /\ msg' = TRUE
    /\ UNCHANGED <<heap, heap0, stations, pc, calls, nlcdArg, result, workers,
                   submitted, data_dirs, berr, outOfOrder, lateDone>>
    /\ UNCHANGED <<retryVars, dateVars>>

IdleJobs ==
    /\ heap = <<>> /\ heap0 = <<>> /\ stations = <<>> /\ pc = <<>>
    /\ calls = <<>> /\ nlcdArg = <<>> /\ result = <<>> /\ workers = 0
    /\ bpc = "idle" /\ submitted = 0 /\ data_dirs = <<>> /\ berr = <<>>
    /\ outOfOrder = FALSE /\ lateDone = FALSE /\ msg = FALSE

IdleRetry ==
    /\ retries = 0 /\ backoff_factor = 0 /\ status_to_retry = {}
    /\ method = "GET" /\ total = 0 /\ connect = 0 /\ read = 0
    /\ errs = <<>> /\ attempts = 0 /\ sleeps = <<>> /\ rpc = "idle" /\ rout = <<>>

IdleDates ==
    /\ dstart = <<>> /\ dend = <<>> /\ dpc = "idle" /\ dout = <<>>

(***************************************************************************)
(* Inputs.                                                                 *)
(***************************************************************************)
Absent == "<absent>"

\* What a caller may supply for each key of a job record (Absent: key left out).
Supplied ==
    [start : {Absent, "2000-01-01"},
     station_id : {Absent, None, "01031500"},
     coords : {Absent, None, "(-69.3, 45.2)"},
     data_dir : {Absent, "/out"},
     width : {Absent, "500"},
     climate : {Absent, "False", "True"},
     nlcd : {Absent, "False", "True"},
     extra : {Absent, "x"}]

MakeRecord(c, y) ==
    LET ks == {k \in DOMAIN c : c[k] # Absent} \cup {"end"}
              \cup (IF y # <<>> THEN {"years"} ELSE {})
    IN  [k \in ks |-> IF k = "years" THEN y[1]
                      ELSE IF k = "end" THEN "2000-12-31"
                      ELSE c[k]]

JobRecords == {MakeRecord(c, y) : c \in Supplied, y \in {<<>>, <<Years2011>>}}

\* The records a batch is built from: two valid ones and one with both
\* identifiers.
BatchRecord(t) ==
    CASE t = 1 -> [start |-> "2000-01-01", end |-> "2000-12-31",
                   station_id |-> "01031500"]
      [] t = 2 -> [start |-> "2000-01-01", end |-> "2000-12-31",
                   coords |-> "(-69.3, 45.2)", climate |-> "True",
                   nlcd |-> "True", years |-> Years2011, extra |-> "x"]
      [] t = 3 -> [start |-> "2000-01-01", end |-> "2000-12-31",
                   station_id |-> "01031500", coords |-> "(-69.3, 45.2)"]

\* The aliasing patterns of a list of n records, each once: record i is a new
\* object or one of the objects already in the list.
Aliasings(n) ==
    {s \in [1..n -> 1..n] :
        \A i \in 1..n : s[i] <= 1 + Cardinality({s[j] : j \in 1..(i - 1)})
                        /\ (s[i] > 1 => \E j \in 1..(i - 1) : s[j] = s[i] - 1)}

InitJobs(n, first) ==
    /\ pc = [i \in 1..n |-> first]
    /\ calls = [i \in 1..n |-> <<>>]
    /\ nlcdArg = [i \in 1..n |-> <<>>]
    /\ result = [i \in 1..n |-> <<>>]
    /\ submitted = 0
    /\ data_dirs = <<>>
    /\ berr = <<>>
    /\ outOfOrder = FALSE
    /\ lateDone = FALSE
    /\ msg = FALSE

\* get_data called directly on one record.
InitGetData ==
    /\ stations = <<1>>
    /\ \E r \in JobRecords : heap = [o \in {1} |-> r]
    /\ heap0 = heap
    /\ workers = 1
    /\ bpc = "direct"
    /\ InitJobs(1, "check")
    /\ IdleRetry /\ IdleDates

\* batch called on a list of up to MaxJobs records.
InitBatch ==
    /\ \E n \in 0..MaxJobs :
        /\ stations \in Aliasings(n)
        /\ heap \in [1..n -> {BatchRecord(t) : t \in 1..3}]
        /\ \A o \in 1..n : (\A i \in 1..n : stations[i] # o) => heap[o] = BatchRecord(1)
        /\ bpc = IF n = 0 THEN "collect" ELSE "submit"
        /\ InitJobs(n, "unsubmitted")
    /\ heap0 = heap
    /\ workers \in 1..MaxWorkers
    /\ IdleRetry /\ IdleDates

NextGetData == \E i \in Jobs : GetData(i)

NextBatch ==
    \/ Submit
    \/ \E i \in Jobs : WorkerStart(i)
    \/ \E i \in Jobs : GetData(i)
    \/ Collect
    \/ BatchExit

SpecGetData == InitGetData /\ [][NextGetData]_vars

SpecBatch == InitBatch /\ [][NextBatch]_vars

(***************************************************************************)
(* Properties of get_data and batch.                                       *)
(***************************************************************************)
\* The job record the caller built for job i.
Record0(i) == heap0[stations[i]]

\* Both identifiers are present in the record and neither is None.
BothIdentifiers(s) ==
    /\ {"station_id", "coords"} \subseteq DOMAIN s
    /\ s["station_id"] # None
    /\ s["coords"] # None

\* Job i is past the exclusivity check of get_data.
PastCheck(i) == pc[i] \in {"merge", "dataloader", "climate", "nlcd", "succeeded"}
                \/ (pc[i] = "failed" /\ result[i] # ExclusivityError)

\* Job i is past the default-merge loop of get_data.
PastMerge(i) == pc[i] \in {"dataloader", "climate", "nlcd", "succeeded"}
                \/ (pc[i] = "failed" /\ result[i] # ExclusivityError)

\* C1: a record with both station_id and coords non-null makes get_data fail
\* with the KeyError before the Dataloader is constructed or any climate/NLCD
\* step runs; a record with at most one of them non-null passes the check.
C1_ExclusivityFailsFirst ==
    \A i \in Jobs :
        pc[i] \in Running \cup {"succeeded", "failed"} /\ pc[i] # "check" =>
            IF BothIdentifiers(Record0(i))
               THEN pc[i] = "failed" /\ result[i] = ExclusivityError /\ calls[i] = <<>>
               ELSE PastCheck(i)

C1_Witness ==
    \E i \in Jobs : BothIdentifiers(Record0(i)) /\ pc[i] = "failed"

\* The keys the interface documents (docstring of batch), and their defaults.
RecognizedKeys == {"start", "end", "station_id", "coords", "data_dir", "rain_snow",
                   "phenology", "width", "climate", "nlcd", "years"}

DocumentedDefault(k) == IF k = "years" THEN Years2016 ELSE default[k]

\* C2: after the default-merge step every recognized key is present, with the
\* supplied value if supplied and the documented default otherwise, and every
\* key already present keeps its value.
C2_DefaultsMerged ==
    \A i \in Jobs :
        PastMerge(i) =>
            /\ \A k \in RecognizedKeys :
                    /\ k \in DOMAIN Arg(i)
                    /\ IF k \in DOMAIN Record0(i)
                          THEN Arg(i)[k] = Record0(i)[k]
                          ELSE Arg(i)[k] = DocumentedDefault(k)
            /\ \A k \in DOMAIN Record0(i) :
                    k \in DOMAIN Arg(i) /\ Arg(i)[k] = Record0(i)[k]

\* C3: when batch returns, it returns one directory per record, element i being
\* the result of the job of record i, whatever the order the jobs completed in;
\* the success message is printed only once every job has finished.
C3_ResultsInSubmissionOrder ==
    /\ bpc = "returned" =>
          /\ Len(data_dirs) = Len(stations)
          /\ \A i \in Jobs :
                /\ pc[i] = "succeeded"
                /\ data_dirs[i] = result[i]
                /\ data_dirs[i] = DataDir(MergeDefaults(Record0(i)))
    /\ msg => \A i \in Jobs : pc[i] = "succeeded"
    /\ (bpc = "exit" /\ berr = <<>>) => \A i \in Jobs : pc[i] = "succeeded"

C3_Witness ==
    /\ bpc = "returned"
    /\ msg
    /\ Len(stations) >= 2
    /\ outOfOrder
    /\ data_dirs[1] # data_dirs[2]

\* C4 as stated: if some record of the batch has both identifiers, no job of
\* the batch does any work (no Dataloader, climate or NLCD call for any record).
C4_NoWorkIfAnyInvalid ==
    (\E i \in Jobs : BothIdentifiers(Record0(i))) =>
        \A j \in Jobs : calls[j] = <<>>

\* C4 as amended: a record with both identifiers is rejected inside its own
\* job, so that job makes no Dataloader, climate or NLCD call and never
\* succeeds, and a batch holding such a record never returns a result list nor
\* prints the success message; the jobs of the other records are dispatched.
C4_InvalidRecordNeverLoads ==
    /\ \A i \in Jobs :
          BothIdentifiers(Record0(i)) => calls[i] = <<>> /\ pc[i] # "succeeded"
    /\ (\E i \in Jobs : BothIdentifiers(Record0(i))) => bpc # "returned" /\ ~msg

C4_Witness ==
    /\ bpc = "raised"
    /\ \E i, j \in Jobs :
          /\ BothIdentifiers(Record0(i))
          /\ pc[i] = "failed"
          /\ pc[j] = "succeeded"
          /\ calls[j] # <<>>

\* C5: if a job of the batch raised, batch does not return a result list and
\* does not print the success message; the exception batch raises is one a
\* failing job raised (the failing job's own, when only one failed).
C5_FailurePropagates ==
    /\ (\E k \in Jobs : pc[k] = "failed") => bpc # "returned" /\ ~msg
    /\ bpc = "returned" => Len(data_dirs) = Len(stations)
                           /\ \A i \in Jobs : data_dirs[i] # <<>>
    /\ bpc = "raised" => \E k \in Jobs : pc[k] = "failed" /\ berr = result[k]
    /\ berr # <<>> => \E k \in Jobs : pc[k] = "failed" /\ berr = result[k]

C5_Witness ==
    /\ bpc = "raised"
    /\ Cardinality({k \in Jobs : pc[k] = "failed"}) = 1
    /\ \E j \in Jobs : pc[j] = "succeeded"
    /\ \E k \in Jobs : pc[k] = "failed" /\ berr = result[k] /\ berr # ExclusivityError

\* C9 as stated: get_data leaves the caller's mappings as they were.
C9_InputUnchanged == heap = heap0

\* C9 as amended: get_data merges the defaults into the caller's mapping
\* itself: a record past the merge holds its original keys with their values
\* plus the keys of the default table it lacked, a record is otherwise as the
\* caller built it, and a rejected record is never changed; a record that
\* appears twice in a batch is one object, changed for both jobs.
C9_MergedInPlace ==
    /\ \A o \in DOMAIN heap :
          /\ \A k \in DOMAIN heap0[o] :
                k \in DOMAIN heap[o] /\ heap[o][k] = heap0[o][k]
          /\ DOMAIN heap[o] \in {DOMAIN heap0[o], DOMAIN heap0[o] \cup DOMAIN default}
          /\ \A k \in DOMAIN heap[o] \ DOMAIN heap0[o] : heap[o][k] = default[k]
          /\ BothIdentifiers(heap0[o]) => heap[o] = heap0[o]
    /\ \A i \in Jobs :
          PastMerge(i) => DOMAIN Arg(i) = DOMAIN Record0(i) \cup DOMAIN default

C9_Witness ==
    \E i, j \in Jobs :
        /\ i < j
        /\ stations[i] = stations[j]
        /\ pc[i] = "succeeded"
        /\ pc[j] = "succeeded"
        /\ heap[stations[i]] # heap0[stations[i]]
        /\ "extra" \in DOMAIN Arg(i)

\* C10: when batch returns or raises, no job of the batch is running: each has
\* succeeded, failed or was cancelled before it started, also when an earlier
\* job failed while later ones were running.
C10_NoJobRunningAtExit ==
    bpc \in {"returned", "raised"} => \A i \in Jobs : pc[i] \in Done

C10_Witness ==
    /\ bpc = "raised"
    /\ lateDone
    /\ \E i, j \in Jobs : i < j /\ pc[i] = "failed" /\ pc[j] = "succeeded"

(***************************************************************************)
(* retry_requests: one request sent through the session it returns.  The   *)
(* session mounts an HTTPAdapter whose max_retries is                      *)
(* Retry(total=retries, read=retries, connect=retries, backoff_factor,     *)
(* status_forcelist=status_to_retry, method_whitelist=False) and replaces  *)
(* the response hooks by raise_for_status.  Times are in seconds.          *)
(***************************************************************************)
Min(a, b) == IF a <= b THEN a ELSE b

\* Retry.BACKOFF_MAX, the cap urllib3 puts on a backoff wait.
BACKOFF_MAX == 120

\* The statuses urllib3 retries when the response carries a Retry-After
\* header (Retry.RETRY_AFTER_STATUS_CODES; respect_retry_after_header is on).
RETRY_AFTER_STATUS_CODES == {413, 429, 503}

\* A backoff that already waits before the first retry.
BackoffTimeFromFirst(n) ==
    IF n <= 0 THEN 0 ELSE Min(BACKOFF_MAX, backoff_factor * 2 ^ (n - 1))

\* Retry.get_backoff_time with backoff_factor as set at line 115; n is the
\* number of consecutive failures in Retry.history.
BackoffTime(n) ==
    IF n <= 1 THEN 0 ELSE Min(BACKOFF_MAX, backoff_factor * 2 ^ (n - 1))

\* line 117, method_whitelist=False: every method is retried.
IsMethodRetryable(m) == TRUE

\* Retry.is_exhausted for the counters set at lines 112-114.
IsExhausted(t, c, r) == t < 0 \/ c < 0 \/ r < 0

\* Retry.is_retry with status_forcelist as set at line 116.
IsRetry(m, status, has_retry_after) ==
    /\ IsMethodRetryable(m)
    /\ \/ status_to_retry # {} /\ status \in status_to_retry
       \/ /\ total # 0
          /\ has_retry_after
          /\ status \in RETRY_AFTER_STATUS_CODES

\* A response hook that raises on server errors only.
RaiseForStatusServerOnly(status) == status >= 500 /\ status < 600

\* line 122, the response hook: r.raise_for_status()
RaiseForStatus(status) == status >= 400 /\ status < 600

Outcome(kind, status, error) == [kind |-> kind, status |-> status, error |-> error]

Failure(kind, status, retry_after) ==
    [kind |-> kind, status |-> status, retry_after |-> retry_after]

\* Retry.increment, then either MaxRetryError leaves the adapter or
\* Retry.sleep runs and the request is sent again.
RetryOrRaise(t, c, r, failure, error) ==
    /\ attempts' = attempts + 1
    /\ total' = t /\ connect' = c /\ read' = r
    /\ errs' = Append(errs, failure)
    /\ IF IsExhausted(t, c, r)
          THEN /\ rpc' = "raised"
               /\ rout' = Outcome("raise", failure.status, error)
               /\ sleeps' = sleeps
          ELSE /\ rpc' = "send"
               /\ rout' = rout
               /\ sleeps' = Append(sleeps,
                     IF failure.retry_after > 0 THEN failure.retry_after
                     ELSE BackoffTime(Len(errs) + 1))
    /\ UNCHANGED <<retries, backoff_factor, status_to_retry, method>>
    /\ UNCHANGED <<jobVars, dateVars>>

\* The connection cannot be made (refused, reset, DNS).
SendConnectError ==
    /\ rpc = "send"
    /\ RetryOrRaise(total - 1, connect - 1, read,
                    Failure("connect", 0, 0), "ConnectionError")

\* The connection is made and reading the response fails or times out.
SendReadError ==
    /\ rpc = "send"
    /\ IsMethodRetryable(method)
    /\ RetryOrRaise(total - 1, connect, read - 1,
                    Failure("read", 0, 0), "ConnectionError")

\* A response arrives with a status urllib3 retries.
SendResponseRetried(status, retry_after) ==
    /\ rpc = "send"
    /\ IsRetry(method, status, retry_after > 0)
    /\ RetryOrRaise(total - 1, connect, read,
                    Failure("status", status, retry_after), "RetryError")

\* A response arrives that urllib3 hands back: the hook raises or the caller
\* gets the response.
SendResponseDelivered(status, retry_after) ==
    /\ rpc = "send"
    /\ ~IsRetry(method, status, retry_after > 0)
    /\ attempts' = attempts + 1
    /\ IF RaiseForStatus(status)
          THEN rpc' = "raised" /\ rout' = Outcome("raise", status, "HTTPError")
          ELSE rpc' = "returned" /\ rout' = Outcome("return", status, "")
    /\ UNCHANGED <<retries, backoff_factor, status_to_retry, method, total,
                   connect, read, errs, sleeps>>
    /\ UNCHANGED <<jobVars, dateVars>>

Statuses == {200, 404, 429, 500, 503}

\* Seconds in the Retry-After header of a response (0: no header).
RetryAfters == {0, 7}

InitRetry ==
    /\ retries \in 0..MaxRetries
    /\ backoff_factor \in {0, 1, 50}
    /\ status_to_retry \in {{500, 502, 504}, {}, {429, 500}}
    /\ method \in {"GET", "POST"}
    /\ total = retries /\ connect = retries /\ read = retries
    /\ errs = <<>> /\ attempts = 0 /\ sleeps = <<>>
    /\ rpc = "send" /\ rout = Outcome("none", 0, "")
    /\ IdleJobs /\ IdleDates

NextRetry ==
    \/ SendConnectError
    \/ SendReadError
    \/ \E s \in Statuses, ra \in RetryAfters : SendResponseRetried(s, ra)
    \/ \E s \in Statuses, ra \in RetryAfters : SendResponseDelivered(s, ra)

SpecRetry == InitRetry /\ [][NextRetry]_vars

(***************************************************************************)
(* Properties of the session built by retry_requests.                      *)
(***************************************************************************)
\* Every attempt so far failed with a connection-level error.
AllConnectErrors ==
    /\ attempts = Len(errs)
    /\ \A k \in 1..Len(errs) : errs[k].kind = "connect"

\* The attempts made and the outcome when every attempt fails to connect.
ConnectRetryCount ==
    /\ attempts <= retries + 1
    /\ AllConnectErrors =>
          /\ rpc # "returned"
          /\ (rpc = "raised") = (attempts = retries + 1)
          /\ Len(sleeps) = Min(attempts, retries)
    /\ rpc = "returned" => attempts = Len(errs) + 1

\* C6 as stated: a request that keeps failing to connect is sent retries + 1
\* times, then raises, and the wait before retry i is backoff_factor * 2^(i-1).
C6_BackoffFromFirstRetry ==
    /\ ConnectRetryCount
    /\ AllConnectErrors =>
          \A i \in 1..Len(sleeps) : sleeps[i] = backoff_factor * 2 ^ (i - 1)

\* C6 as amended: a request that keeps failing to connect is sent retries + 1
\* times, for any method, then raises; there is no wait before the first
\* retry, and the wait before retry i >= 2 is backoff_factor * 2^(i-1) capped
\* at 120 seconds; a request that succeeds on an attempt stops there.
C6_BackoffAfterSecondTry ==
    /\ ConnectRetryCount
    /\ AllConnectErrors =>
          \A i \in 1..Len(sleeps) :
              sleeps[i] = IF i = 1 THEN 0
                          ELSE Min(120, backoff_factor * 2 ^ (i - 1))

C6_Witness ==
    /\ AllConnectErrors
    /\ rpc = "raised"
    /\ method = "POST"
    /\ backoff_factor = 50
    /\ sleeps = <<0, 100, 120>>

\* What C7 says of every run, retried statuses aside.
NoErrorStatusReturned ==
    /\ rpc = "returned" => ~(rout.status >= 400 /\ rout.status < 600)
    /\ attempts <= retries + 1
    /\ rout.error = "HTTPError" =>
          /\ rout.status \notin status_to_retry
          /\ rout.status >= 400
    /\ rout.error = "RetryError" => attempts = retries + 1
    /\ rpc \in {"returned", "raised"} /\ rout.error # "RetryError" =>
          rout.status \notin status_to_retry

\* C7 as stated: only a status of status_to_retry is retried (up to retries
\* times, then an error is raised); any other 4xx/5xx status raises an HTTP
\* error at once, and no 4xx/5xx response is returned as a result.
C7_OnlyRetrySetRetried ==
    /\ NoErrorStatusReturned
    /\ \A k \in 1..Len(errs) :
          errs[k].kind = "status" => errs[k].status \in status_to_retry

\* C7 as amended: a status of status_to_retry is retried up to retries times
\* and then raises; a 413, 429 or 503 response carrying a Retry-After header
\* is retried as well; any other 4xx/5xx status raises an HTTP error at once,
\* and no 4xx/5xx response is returned as a result.
C7_RetrySetOrRetryAfter ==
    /\ NoErrorStatusReturned
    /\ \A k \in 1..Len(errs) :
          errs[k].kind = "status" =>
              \/ errs[k].status \in status_to_retry
              \/ errs[k].status \in {413, 429, 503} /\ errs[k].retry_after > 0

C7_Witness ==
    /\ rpc = "raised"
    /\ rout.error = "HTTPError"
    /\ rout.status = 404
    /\ Len(errs) = 2
    /\ errs[1].status = 500 /\ errs[1].status \in status_to_retry
    /\ errs[2].status = 429 /\ errs[2].status \notin status_to_retry

(***************************************************************************)
(* daymet_dates.  A date is <<year, month, day>>.                          *)
(***************************************************************************)
\* pandas' DatetimeIndex.is_leap_year (the Gregorian rule).
IsLeapYear(y) == y % 4 = 0 /\ (y % 100 # 0 \/ y % 400 = 0)

DaysInMonth(y, m) ==
    CASE m \in {1, 3, 5, 7, 8, 10, 12} -> 31
      [] m \in {4, 6, 9, 11} -> 30
      [] OTHER -> IF IsLeapYear(y) THEN 29 ELSE 28

RECURSIVE MonthsFrom(_, _)
MonthsFrom(y, m) ==
    IF m > 12 THEN <<>>
    ELSE [d \in 1..DaysInMonth(y, m) |-> <<y, m, d>>] \o MonthsFrom(y, m + 1)

RECURSIVE YearsFrom(_)
YearsFrom(y) ==
    IF y >= FirstYear + NumYears THEN <<>>
    ELSE MonthsFrom(y, 1) \o YearsFrom(y + 1)

\* The days of the years of the model, in order.
Calendar == YearsFrom(FirstYear)

DayIndex(date) == CHOOSE n \in 1..Len(Calendar) : Calendar[n] = date

\* line 291, pd.date_range(start, end): every day from start to end.
DateRange(start, end) == SubSeq(Calendar, DayIndex(start), DayIndex(end))

Range(s) == {s[i] : i \in 1..Len(s)}

\* line 294: strftime("%Y-%m-%d") ends with "12-31".
EndsWith1231(date) == date[2] = 12 /\ date[3] = 31

\* A leap-year mask that forgets the test on December 31.
LeapKeptAll(date) == IsLeapYear(date[1])

\* lines 293-295, the mask of lp.
LeapKept(date) == IsLeapYear(date[1]) /\ ~EndsWith1231(date)

\* line 297, period.year.unique(): the distinct years, in order of first appearance.
UniqueYears(period) ==
    LET ys == {period[i][1] : i \in 1..Len(period)}
        first(y) == CHOOSE i \in 1..Len(period) :
                        period[i][1] = y /\ \A j \in 1..(i - 1) : period[j][1] # y
    IN  [k \in 1..Cardinality(ys) |->
            CHOOSE y \in ys : Cardinality({z \in ys : first(z) < first(y)}) = k - 1]

\* lines 291-298
daymet_dates(start, end) ==
    LET period0 == DateRange(start, end)
        nl == Range(SelectSeq(period0, LAMBDA d : ~IsLeapYear(d[1])))
        lp == Range(SelectSeq(period0, LeapKept))
        period == SelectSeq(period0, LAMBDA d : d \in nl \/ d \in lp)
        uy == UniqueYears(period)
        years == [k \in 1..Len(uy) |-> SelectSeq(period, LAMBDA d : d[1] = uy[k])]
    IN  [k \in 1..Len(uy) |-> <<years[k][1], years[k][Len(years[k])]>>]

\* The dates a caller passes: the first days, the last days and two inner days
\* of each year of the model.
InputDates ==
    {<<y, md[1], md[2]>> : y \in FirstYear..(FirstYear + NumYears - 1),
                           md \in {<<1, 1>>, <<1, 5>>, <<2, 28>>, <<12, 1>>,
                                   <<12, 30>>, <<12, 31>>}}

InitDates ==
    /\ dstart \in InputDates
    /\ dend \in InputDates
    /\ dpc = "call"
    /\ dout = <<>>
    /\ IdleJobs /\ IdleRetry

CallDaymetDates ==
    /\ dpc = "call"
    /\ dout' = daymet_dates(dstart, dend)
    /\ dpc' = "done"
    /\ UNCHANGED <<dstart, dend>>
    /\ UNCHANGED <<jobVars, retryVars>>

NextDates == CallDaymetDates

SpecDates == InitDates /\ [][NextDates]_vars

(***************************************************************************)
(* Properties of daymet_dates.                                             *)
(***************************************************************************)
DateLE(a, b) ==
    \/ a[1] < b[1]
    \/ a[1] = b[1] /\ a[2] < b[2]
    \/ a[1] = b[1] /\ a[2] = b[2] /\ a[3] <= b[3]

LeapYear(y) == (y % 4 = 0 /\ y % 100 # 0) \/ y % 400 = 0

\* The first date of the range start..end in year y.
FirstIn(y, start) == IF start[1] = y THEN start ELSE <<y, 1, 1>>

\* The last date of the range start..end in year y, December 31 of a leap
\* year left out.
LastIn(y, end) ==
    LET l == IF end[1] = y THEN end ELSE <<y, 12, 31>>
    IN  IF LeapYear(y) /\ l = <<y, 12, 31>> THEN <<y, 12, 30>> ELSE l

\* The elements of a set of years in ascending order.
Ascending(ys) ==
    [k \in 1..Cardinality(ys) |->
        CHOOSE y \in ys : Cardinality({z \in ys : z < y}) = k - 1]

PairsOf(ys) ==
    [k \in 1..Cardinality(ys) |->
        <<FirstIn(Ascending(ys)[k], dstart), LastIn(Ascending(ys)[k], dend)>>]

\* C8 as stated: for start <= end the result has one pair per calendar year
\* of the range, in ascending order: the first date of the range in that year
\* and the last one, December 31 of a leap year left out.
C8_OnePairPerYear ==
    dpc = "done" /\ DateLE(dstart, dend) =>
        dout = PairsOf(dstart[1]..dend[1])

\* C8 as amended: for start <= end the result has one pair per calendar year
\* of the range in which, December 31 of a leap year left out, a date of the
\* range remains (a year in which the range holds only December 31 of a leap
\* year gets no pair), in ascending order: the first date of the range in
\* that year and the last one, December 31 of a leap year left out.
C8_OnePairPerYearWithDates ==
    dpc = "done" /\ DateLE(dstart, dend) =>
        dout = PairsOf({y \in dstart[1]..dend[1] :
                            DateLE(FirstIn(y, dstart), LastIn(y, dend))})

C8_Witness ==
    /\ dpc = "done"
    /\ dstart = <<2015, 12, 1>>
    /\ dend = <<2016, 1, 5>>
    /\ dout = << <<(<<2015, 12, 1>>), (<<2015, 12, 31>>)>>,
                 <<(<<2016, 1, 1>>), (<<2016, 1, 5>>)>> >>

\* A range that ends on December 31 of a leap year ends on December 30.
C8_WitnessLeapEnd ==
    /\ dpc = "done"
    /\ dstart = <<2016, 12, 1>>
    /\ dend = <<2017, 1, 5>>
    /\ dout[1] = <<(<<2016, 12, 1>>), (<<2016, 12, 30>>)>>

=============================================================================
